---- MODULE Spec2Model ----
(***************************************************************************)
(* Portfolio (src/src/portfolio.py): a dict of funds, a metadata table     *)
(* (self.portfolio), a table of return series (self.pf_roi_data) and five  *)
(* cached derived values, with addFund, the five comp* operations and      *)
(* compSharpe as the operations.                                           *)
(*                                                                         *)
(* Numbers.  A float is modelled as an exact extended rational <<n, d>>    *)
(* with d >= 0 in lowest terms: d > 0 is the finite value n/d, <<1, 0>> is *)
(* inf, <<-1, 0>> is -inf and <<0, 0>> is NaN.  Rounding is not modelled.  *)
(* A square root is kept symbolic as [radicand |-> q].                     *)
(*                                                                         *)
(* An Optional value (None until computed) is a sequence of length 0 or 1. *)
(***************************************************************************)
EXTENDS Integers, Sequences, FiniteSets, TLC

VARIABLES funds, portfolio, pf_roi_data, pf_means, pf_weights, expectedRoi,
          volatility, covPf, last, nops

vars == <<funds, portfolio, pf_roi_data, pf_means, pf_weights, expectedRoi,
          volatility, covPf, last, nops>>

caches == <<pf_means, pf_weights, expectedRoi, volatility, covPf>>

\* ------------------------------------------------------------------ bounds
\* rows self.portfolio may hold
MaxFunds == 2
\* operations performed on one Portfolio
MaxOps == 4
\* FMV of a fund ranges over 0..MaxFMV
MaxFMV == 1

FundNames == {"A", "B"}
\* the ROI series a caller may hand to Fund(...): lengths 0, 1 and 2
RoiSeries == {<< >>, <<1>>, <<0, 1>>, <<2, 1>>}
RiskFreeRates == {0}

\* --------------------------------------------------- extended rationals
None == << >>
Some(v) == <<v>>
IsSet(c) == Len(c) = 1

Abs(n) == IF n < 0 THEN -n ELSE n
Sign(n) == IF n < 0 THEN -1 ELSE IF n = 0 THEN 0 ELSE 1

RECURSIVE GCD(_, _)
GCD(a, b) == IF b = 0 THEN a ELSE GCD(b, a % b)

\* n/d for d >= 0 in lowest terms; x/0 is inf, -inf or NaN as IEEE division gives
Norm(n, d) ==
    IF d = 0 THEN <<Sign(n), 0>>
    ELSE LET g == GCD(Abs(n), d) IN <<n \div g, d \div g>>

NaN == <<0, 0>>
Num(n) == <<n, 1>>
IsNaN(q) == q = NaN
IsFinite(q) == q[2] > 0

RDiv(n, d) == IF d < 0 THEN Norm(-n, -d) ELSE Norm(n, d)
RMul(a, b) == Norm(a[1] * b[1], a[2] * b[2])
RAdd(a, b) ==
    IF a[2] = 0 /\ b[2] = 0 THEN (IF a = b THEN a ELSE NaN)
    ELSE IF a[2] = 0 THEN a
    ELSE IF b[2] = 0 THEN b
    ELSE Norm(a[1] * b[2] + b[1] * a[2], a[2] * b[2])

\* IEEE sum of a sequence (numpy.dot: NaN propagates)
RECURSIVE RSum(_)
RSum(s) == IF s = << >> THEN Num(0) ELSE RAdd(s[1], RSum(Tail(s)))

\* pandas sum with skipna=True: NaN terms are left out; the empty sum is 0
RECURSIVE RSumSkipNa(_)
RSumSkipNa(s) ==
    IF s = << >> THEN Num(0)
    ELSE IF IsNaN(s[1]) THEN RSumSkipNa(Tail(s))
    ELSE RAdd(s[1], RSumSkipNa(Tail(s)))

\* numpy.sqrt: of a negative number or NaN it is NaN
Sqrt(q) == [radicand |-> IF IsFinite(q) /\ q[1] < 0 THEN NaN ELSE q]

\* ------------------------------------------------------------------ Fund
Fund(investmentinfo, roi_data) ==
    [name |-> investmentinfo.Name,
     investmentinfo |-> investmentinfo,
     roi_data |-> roi_data]

getInvestmentInfo(fund) == fund.investmentinfo

InvestmentInfos == [Name : FundNames, FMV : 0..MaxFMV]
Funds == {Fund(info, roi) : info \in InvestmentInfos, roi \in RoiSeries}

\* ------------------------------------------------------------- Portfolio
Init ==
    /\ portfolio = << >>
    /\ funds = << >>
    /\ pf_roi_data = [index |-> 0, columns |-> << >>]
    /\ pf_means = None
    /\ pf_weights = None
    /\ expectedRoi = None
    /\ volatility = None
    /\ covPf = None
    /\ last = [op |-> "init", outcome |-> "ok", arg |-> << >>, result |-> << >>]
    /\ nops = 0

\* what the caller observes of a call: the operation, how it ended, its result
Done(op, outcome, result) ==
    /\ last' = [op |-> op, outcome |-> outcome, arg |-> << >>, result |-> result]
    /\ nops' = nops + 1

\* dict.update({fund.name : fund}): an existing key keeps its place
DictUpdate(d, fund) ==
    IF \E i \in 1..Len(d) : d[i].name = fund.name
    THEN [i \in 1..Len(d) |-> IF d[i].name = fund.name THEN fund ELSE d[i]]
    ELSE Append(d, fund)

Keys(d) == [i \in 1..Len(d) |-> d[i].name]

\* DataFrame.append(row, ignore_index=True)
DataFrameAppend(df, row) == Append(df, row)

ColumnNames(df) == [i \in 1..Len(df.columns) |-> df.columns[i].name]
HasColumn(df, name) == \E i \in 1..Len(df.columns) : df.columns[i].name = name

\* DataFrame._ensure_valid_index: a frame with an empty index takes the index
\* of a non-empty value; the columns it already has are filled with NaN
EnsureValidIndex(df, values) ==
    IF df.index = 0 /\ Len(values) > 0
    THEN [index |-> Len(values),
          columns |-> [i \in 1..Len(df.columns) |->
                         [name |-> df.columns[i].name,
                          values |-> [k \in 1..Len(values) |-> NaN]]]]
    ELSE df

LengthMatches(df, values) == Len(values) = df.index

WithColumn(df, name, values) ==
    [index |-> df.index,
     columns |-> Append(df.columns,
                        [name |-> name,
                         values |-> [k \in 1..Len(values) |-> Num(values[k])]])]

\* DataFrame.insert(loc=cols, column=name, value=values), duplicates checked
\* first (pandas >= 1.1)
InsertChecksFirst(df, name, values) ==
    IF HasColumn(df, name) THEN [outcome |-> "ValueError", df |-> df]
    ELSE LET df1 == EnsureValidIndex(df, values) IN
         IF ~LengthMatches(df1, values) THEN [outcome |-> "ValueError", df |-> df1]
         ELSE [outcome |-> "ok", df |-> WithColumn(df1, name, values)]

\* the same, duplicates checked last, by the block manager (pandas < 1.1)
InsertChecksLast(df, name, values) ==
    LET df1 == EnsureValidIndex(df, values) IN
    IF ~LengthMatches(df1, values) THEN [outcome |-> "ValueError", df |-> df1]
    ELSE IF HasColumn(df1, name) THEN [outcome |-> "ValueError", df |-> df1]
    ELSE [outcome |-> "ok", df |-> WithColumn(df1, name, values)]

\* DataFrame.insert with the length check left out: the column goes in ragged
DataFrameInsert_NoLengthCheck(df, name, values) ==
    IF HasColumn(df, name) THEN {[outcome |-> "ValueError", df |-> df]}
    ELSE {[outcome |-> "ok", df |-> WithColumn(EnsureValidIndex(df, values), name, values)]}

\* the outcomes DataFrame.insert can have under the pandas versions that
\* still have DataFrame.append
DataFrameInsert(df, name, values) ==
    {InsertChecksFirst(df, name, values), InsertChecksLast(df, name, values)}

addRoiData(df, name, values) == DataFrameInsert(df, name, values)

\* addFund with the caches dropped on every mutation
addFund_Invalidating(fund) ==
    /\ nops < MaxOps
    /\ Len(portfolio) < MaxFunds
    /\ funds' = DictUpdate(funds, fund)
    /\ portfolio' = DataFrameAppend(portfolio, getInvestmentInfo(fund))
    /\ \E r \in addRoiData(pf_roi_data, fund.name, fund.roi_data) :
          /\ pf_roi_data' = r.df
          /\ last' = [op |-> "addFund", outcome |-> r.outcome,
                      arg |-> <<fund>>, result |-> << >>]
    /\ nops' = nops + 1
    /\ pf_means' = None /\ pf_weights' = None /\ expectedRoi' = None
    /\ volatility' = None /\ covPf' = None

addFund(fund) ==
    /\ nops < MaxOps
    /\ Len(portfolio) < MaxFunds
    /\ funds' = DictUpdate(funds, fund)
    /\ portfolio' = DataFrameAppend(portfolio, getInvestmentInfo(fund))
    /\ \E r \in addRoiData(pf_roi_data, fund.name, fund.roi_data) :
          /\ pf_roi_data' = r.df
          /\ last' = [op |-> "addFund", outcome |-> r.outcome,
                      arg |-> <<fund>>, result |-> << >>]
    /\ nops' = nops + 1
    /\ UNCHANGED caches

\* -------------------------------------------------- table statistics
\* the rows of a column that hold a number
Valid(col) == {k \in 1..Len(col) : ~IsNaN(col[k])}

RECURSIVE SumOver(_, _, _)
\* sum over the rows k in S of x[k] * y[k] (cells that are numbers are integers)
SumOver(S, x, y) ==
    IF S = {} THEN 0
    ELSE LET k == CHOOSE k \in S : TRUE
         IN x[k][1] * y[k][1] + SumOver(S \ {k}, x, y)

Ones(col) == [k \in 1..Len(col) |-> Num(1)]

\* Series.mean(): NaN rows are skipped; the mean of no rows is NaN
ColumnMean(col) ==
    Norm(SumOver(Valid(col), col, Ones(col)), Cardinality(Valid(col)))

\* DataFrame.mean().values: one mean per column, in column order
DataFrameMean(df) ==
    [i \in 1..Len(df.columns) |-> ColumnMean(df.columns[i].values)]

\* sample covariance (divisor N - 1) over the rows both columns have
Cov(x, y) ==
    LET V == Valid(x) \cap Valid(y)
        N == Cardinality(V)
    IN Norm(N * SumOver(V, x, y) - SumOver(V, x, Ones(x)) * SumOver(V, y, Ones(y)),
            N * (N - 1))

\* DataFrame.cov(): square, indexed by column in both dimensions
DataFrameCov(df) ==
    [i \in 1..Len(df.columns) |->
        [j \in 1..Len(df.columns) |->
            Cov(df.columns[i].values, df.columns[j].values)]]

RECURSIVE SumFMV(_)
\* self.portfolio.FMV.sum()
SumFMV(pf) == IF pf = << >> THEN 0 ELSE pf[1].FMV + SumFMV(Tail(pf))

\* the weights in reversed row order
FMVOverTotal_Reversed(pf) ==
    [i \in 1..Len(pf) |-> RDiv(pf[Len(pf) + 1 - i].FMV, SumFMV(pf))]

\* self.portfolio.FMV / total: one weight per row, in row order
FMVOverTotal(pf) == [i \in 1..Len(pf) |-> RDiv(pf[i].FMV, SumFMV(pf))]

\* the product pairing each mean with the weight at the mirrored position
weightedMean_Misaligned(means, weights) ==
    IF Len(means) = Len(weights)
    THEN [outcome |-> "ok",
          value |-> RSumSkipNa([i \in 1..Len(weights) |->
                       RMul(means[i], weights[Len(weights) + 1 - i])])]
    ELSE [outcome |-> "ValueError", value |-> NaN]

\* numpy.sum(means * weights): means is an ndarray, weights a Series; the
\* product pairs them by position (an ndarray of length 1 broadcasts) and the
\* sum is the Series' sum, which skips NaN
weightedMean(means, weights) ==
    IF Len(means) = Len(weights)
    THEN [outcome |-> "ok",
          value |-> RSumSkipNa([i \in 1..Len(weights) |-> RMul(means[i], weights[i])])]
    ELSE IF Len(means) = 1
    THEN [outcome |-> "ok",
          value |-> RSumSkipNa([i \in 1..Len(weights) |-> RMul(means[1], weights[i])])]
    ELSE [outcome |-> "ValueError", value |-> NaN]

\* numpy.sqrt(numpy.dot(weights.T, numpy.dot(cov_matrix, weights)))
weightedStd(cov_matrix, weights) ==
    IF Len(cov_matrix) # Len(weights)
    THEN [outcome |-> "ValueError", value |-> Sqrt(NaN)]
    ELSE LET n == Len(weights)
             inner == [i \in 1..n |->
                          RSum([j \in 1..n |-> RMul(cov_matrix[i][j], weights[j])])]
         IN [outcome |-> "ok",
             value |-> Sqrt(RSum([i \in 1..n |-> RMul(weights[i], inner[i])]))]

\* a Sharpe ratio that reads an unset operand as 0 instead of failing
SharpeRatio_NoneAsZero(exproi, riskfreerate, vol) ==
    [outcome |-> "ok",
     value |-> <<[numerator |-> RAdd(IF IsSet(exproi) THEN exproi[1] ELSE Num(0),
                                      Num(-riskfreerate)),
                  denominator |-> IF IsSet(vol) THEN vol[1] ELSE Sqrt(Num(0))]>>]

\* (exproi - riskfreerate) / float(volatility), on Optional operands
SharpeRatio(exproi, riskfreerate, vol) ==
    IF ~IsSet(exproi) \/ ~IsSet(vol)
    THEN [outcome |-> "TypeError", value |-> << >>]
    ELSE [outcome |-> "ok",
          value |-> <<[numerator |-> RAdd(exproi[1], Num(-riskfreerate)),
                       denominator |-> vol[1]]>>]

\* ------------------------------------------------------------ getters
getPortfolio == portfolio
getPfRoiData == pf_roi_data
getFunds == funds
getPfMeans == pf_means
getPfWeights == pf_weights
getPfExpectedRoi == expectedRoi
getVolatility == volatility
getCovPf == covPf

\* ----------------------------------------------------- compute operations
compPfMeans ==
    /\ nops < MaxOps
    /\ pf_means' = Some(DataFrameMean(getPfRoiData))
    /\ Done("compPfMeans", "ok", pf_means')
    /\ UNCHANGED <<funds, portfolio, pf_roi_data, pf_weights, expectedRoi,
                   volatility, covPf>>

\* an empty DataFrame has no FMV column: self.portfolio.FMV raises
HasFMV(pf) == Len(pf) > 0

compPfWeights ==
    /\ nops < MaxOps
    /\ IF HasFMV(portfolio)
       THEN /\ pf_weights' = Some(FMVOverTotal(portfolio))
            /\ Done("compPfWeights", "ok", pf_weights')
       ELSE /\ pf_weights' = pf_weights
            /\ Done("compPfWeights", "AttributeError", << >>)
    /\ UNCHANGED <<funds, portfolio, pf_roi_data, pf_means, expectedRoi,
                   volatility, covPf>>

\* compPfExpectedRoi working on local means and weights, caching only its result
compPfExpectedRoi_NoSubCaches ==
    /\ nops < MaxOps
    /\ IF ~HasFMV(portfolio)
       THEN /\ Done("compPfExpectedRoi", "AttributeError", << >>)
            /\ UNCHANGED expectedRoi
       ELSE LET r == weightedMean(DataFrameMean(getPfRoiData), FMVOverTotal(portfolio)) IN
            IF r.outcome = "ok"
            THEN /\ expectedRoi' = Some(r.value)
                 /\ Done("compPfExpectedRoi", "ok", expectedRoi')
            ELSE /\ expectedRoi' = expectedRoi
                 /\ Done("compPfExpectedRoi", r.outcome, << >>)
    /\ UNCHANGED <<funds, portfolio, pf_roi_data, pf_means, pf_weights,
                   volatility, covPf>>

compPfExpectedRoi ==
    /\ nops < MaxOps
    /\ pf_means' = Some(DataFrameMean(getPfRoiData))
    /\ IF ~HasFMV(portfolio)
       THEN /\ Done("compPfExpectedRoi", "AttributeError", << >>)
            /\ UNCHANGED <<pf_weights, expectedRoi>>
       ELSE /\ pf_weights' = Some(FMVOverTotal(portfolio))
            /\ LET r == weightedMean(pf_means'[1], pf_weights'[1]) IN
               IF r.outcome = "ok"
               THEN /\ expectedRoi' = Some(r.value)
                    /\ Done("compPfExpectedRoi", "ok", expectedRoi')
               ELSE /\ expectedRoi' = expectedRoi
                    /\ Done("compPfExpectedRoi", r.outcome, << >>)
    /\ UNCHANGED <<funds, portfolio, pf_roi_data, volatility, covPf>>

compPfVolatility ==
    /\ nops < MaxOps
    /\ IF ~HasFMV(portfolio)
       THEN /\ Done("compPfVolatility", "AttributeError", << >>)
            /\ UNCHANGED <<pf_weights, covPf, volatility>>
       ELSE /\ pf_weights' = Some(FMVOverTotal(portfolio))
            /\ covPf' = Some(DataFrameCov(pf_roi_data))
            /\ LET r == weightedStd(covPf'[1], pf_weights'[1]) IN
               IF r.outcome = "ok"
               THEN /\ volatility' = Some(r.value)
                    /\ Done("compPfVolatility", "ok", volatility')
               ELSE /\ volatility' = volatility
                    /\ Done("compPfVolatility", r.outcome, << >>)
    /\ UNCHANGED <<funds, portfolio, pf_roi_data, pf_means, expectedRoi>>

compCovPf ==
    /\ nops < MaxOps
    /\ covPf' = Some(DataFrameCov(pf_roi_data))
    /\ Done("compCovPf", "ok", covPf')
    /\ UNCHANGED <<funds, portfolio, pf_roi_data, pf_means, pf_weights,
                   expectedRoi, volatility>>

compSharpe(riskfreerate) ==
    /\ nops < MaxOps
    /\ LET r == SharpeRatio(getPfExpectedRoi, riskfreerate, getVolatility) IN
       /\ last' = [op |-> "compSharpe", outcome |-> r.outcome,
                   arg |-> <<riskfreerate>>, result |-> r.value]
       /\ nops' = nops + 1
    /\ UNCHANGED <<funds, portfolio, pf_roi_data, caches>>

Next ==
    \/ \E fund \in Funds : addFund(fund)
    \/ compPfMeans
    \/ compPfWeights
    \/ compPfExpectedRoi
    \/ compPfVolatility
    \/ compCovPf
    \/ \E r \in RiskFreeRates : compSharpe(r)

Spec == Init /\ [][Next]_vars

\* ================================================================ claims
ComputeOps == {"compPfMeans", "compPfWeights", "compPfExpectedRoi",
               "compPfVolatility", "compCovPf"}

Failed(outcome) == outcome # "ok"

\* C1: compSharpe on a Portfolio whose expectedRoi or volatility is still None
\* fails (the None operand raises TypeError, the code's form of the
\* precondition failure) and returns nothing; and no compSharpe call,
\* failing or not, changes any cached field.
C1_SharpeUnsetFails ==
    [][last'.op = "compSharpe" =>
          /\ caches' = caches
          /\ (~IsSet(expectedRoi) \/ ~IsSet(volatility)) =>
                /\ Failed(last'.outcome)
                /\ last'.outcome = "TypeError"
                /\ last'.result = << >>]_vars

\* a compSharpe call that failed with the expected return computed and the
\* volatility not
C1_Witness ==
    /\ last.op = "compSharpe"
    /\ last.outcome = "TypeError"
    /\ IsSet(expectedRoi)
    /\ ~IsSet(volatility)

\* C2 (as claimed): every addFund(fund), a repeated name included, leaves
\* fund under its name in funds, appends exactly its metadata row to the
\* metadata table and appends exactly one column named by the fund to the
\* returns table.
C2_AddFundGrowsBoth ==
    [][last'.op = "addFund" =>
          LET fund == last'.arg[1] IN
          /\ \E i \in 1..Len(funds') : funds'[i] = fund
          /\ \A i \in 1..Len(funds') : funds'[i].name = fund.name => funds'[i] = fund
          /\ portfolio' = Append(portfolio, fund.investmentinfo)
          /\ Len(pf_roi_data'.columns) = Len(pf_roi_data.columns) + 1
          /\ ColumnNames(pf_roi_data')[Len(pf_roi_data'.columns)] = fund.name]_vars

Range(f) == {f[i] : i \in DOMAIN f}
Injective(f) == \A i, j \in DOMAIN f : f[i] = f[j] => i = j

\* C3 (as claimed): in every reachable state the names of the metadata rows,
\* in order, are the keys of funds in insertion order, and the columns of
\* the returns table correspond one to one to the keys of funds.
C3_TablesMatchFunds ==
    /\ [i \in 1..Len(portfolio) |-> portfolio[i].Name] = Keys(funds)
    /\ Injective(ColumnNames(pf_roi_data))
    /\ Range(ColumnNames(pf_roi_data)) = Range(Keys(funds))

\* C4: addFund changes no cached value: what each getter returns, and what
\* compSharpe would return, is after the call what it was before it.
C4_AddFundKeepsCaches ==
    [][last'.op = "addFund" =>
          /\ getPfMeans' = getPfMeans
          /\ getPfWeights' = getPfWeights
          /\ getCovPf' = getCovPf
          /\ getPfExpectedRoi' = getPfExpectedRoi
          /\ getVolatility' = getVolatility
          /\ \A r \in RiskFreeRates :
                SharpeRatio(getPfExpectedRoi', r, getVolatility')
                   = SharpeRatio(getPfExpectedRoi, r, getVolatility)]_vars

\* an addFund after every cache was filled: the caches still describe the
\* portfolio as it was one fund earlier
C4_Witness ==
    /\ last.op = "addFund"
    /\ last.outcome = "ok"
    /\ IsSet(pf_means) /\ IsSet(pf_weights) /\ IsSet(expectedRoi)
    /\ Len(pf_weights[1]) < Len(portfolio)
    /\ Len(pf_means[1]) < Len(pf_roi_data.columns)

\* C5 (as claimed): a compute operation that fails leaves every cached field
\* as it was before the call.
C5_FailedComputeKeepsCaches ==
    [][(last'.op \in ComputeOps /\ Failed(last'.outcome)) => caches' = caches]_vars

\* C6: on a portfolio with total FMV > 0 (every FMV >= 0), compPfWeights
\* succeeds, returns what it caches, one weight per metadata row in row
\* order, with weight_i * total = FMV_i for every row, and the weights sum
\* to 1.
C6_WeightsProportional ==
    (last.op = "compPfWeights" /\ SumFMV(portfolio) > 0) =>
        /\ last.outcome = "ok"
        /\ IsSet(pf_weights)
        /\ last.result = pf_weights
        /\ Len(pf_weights[1]) = Len(portfolio)
        /\ \A i \in 1..Len(portfolio) :
              RMul(pf_weights[1][i], Num(SumFMV(portfolio))) = Num(portfolio[i].FMV)
        /\ RSum(pf_weights[1]) = Num(1)

\* weights of two funds of different FMV
C6_Witness ==
    /\ last.op = "compPfWeights"
    /\ last.outcome = "ok"
    /\ Len(portfolio) = 2
    /\ portfolio[1].FMV > portfolio[2].FMV
    /\ SumFMV(portfolio) > 0

\* C7 (as claimed): compPfWeights on a portfolio whose FMV sum is 0 (the
\* empty portfolio included) fails and does not write the weights cache.
C7_ZeroTotalFails ==
    [][(last'.op = "compPfWeights" /\ SumFMV(portfolio) = 0) =>
          /\ Failed(last'.outcome)
          /\ pf_weights' = pf_weights]_vars

\* the mean of one fund's own return series
SeriesMean(roi) ==
    Norm(SumOver(1..Len(roi), [k \in 1..Len(roi) |-> Num(roi[k])],
                 [k \in 1..Len(roi) |-> Num(1)]),
         Len(roi))

RECURSIVE TotalFMV(_)
TotalFMV(S) ==
    IF S = {} THEN 0
    ELSE LET f == CHOOSE f \in S : TRUE
         IN f.investmentinfo.FMV + TotalFMV(S \ {f})

RECURSIVE NameAlignedSum(_, _)
\* sum over the funds f of S of mean(f) * FMV(f) / total: no order enters it
NameAlignedSum(S, total) ==
    IF S = {} THEN Num(0)
    ELSE LET f == CHOOSE f \in S : TRUE
         IN RAdd(RMul(SeriesMean(f.roi_data), RDiv(f.investmentinfo.FMV, total)),
                 NameAlignedSum(S \ {f}, total))

\* a portfolio built by successful addFund calls alone from funds of distinct
\* names and equal, non-zero length, with total FMV > 0
DistinctEqualLength ==
    /\ Len(funds) > 0
    /\ Len(portfolio) = Len(funds)
    /\ Len(pf_roi_data.columns) = Len(funds)
    /\ \A i \in 1..Len(funds) :
          /\ Len(funds[i].roi_data) > 0
          /\ Len(funds[i].roi_data) = Len(funds[1].roi_data)
    /\ SumFMV(portfolio) > 0

\* C8: on such a portfolio compPfExpectedRoi succeeds and returns and caches
\* the sum over the funds of (mean of the fund's own series) * (the fund's
\* FMV / total FMV); that sum is a function of the set of funds alone, so
\* every order of adding them gives the same result.
C8_ExpectedReturnNameAligned ==
    (last.op = "compPfExpectedRoi" /\ DistinctEqualLength) =>
        /\ last.outcome = "ok"
        /\ last.result = expectedRoi
        /\ expectedRoi = Some(NameAlignedSum(Range(funds), TotalFMV(Range(funds))))

\* two funds that differ in FMV and in mean return, the one added second
\* being the smaller key
C8_Witness ==
    /\ last.op = "compPfExpectedRoi"
    /\ DistinctEqualLength
    /\ Len(funds) = 2
    /\ funds[1].name = "B" /\ funds[2].name = "A"
    /\ funds[1].investmentinfo.FMV # funds[2].investmentinfo.FMV
    /\ SeriesMean(funds[1].roi_data) # SeriesMean(funds[2].roi_data)

\* addFund of a series whose length is not the row count of a returns table
\* that already has columns
LengthMismatch(df, fund) ==
    /\ Len(df.columns) > 0
    /\ Len(fund.roi_data) # df.index

\* C9 (as claimed): addFund of a fund whose series length differs from the
\* row count of the existing returns table raises nothing and inserts the
\* fund into funds, the metadata table and the returns table.
C9_NoLengthCheck ==
    [][(last'.op = "addFund" /\ LengthMismatch(pf_roi_data, last'.arg[1])
          /\ ~HasColumn(pf_roi_data, last'.arg[1].name)) =>
          LET fund == last'.arg[1] IN
          /\ last'.outcome = "ok"
          /\ funds' = DictUpdate(funds, fund)
          /\ portfolio' = Append(portfolio, fund.investmentinfo)
          /\ ColumnNames(pf_roi_data') = Append(ColumnNames(pf_roi_data), fund.name)]_vars

\* C9 (amended): addFund of a fund whose series length differs from the row
\* count of a returns table that has at least one row fails with ValueError
\* at insertion time, after the fund went into funds and its metadata row
\* was appended; the returns table is left as it was, never ragged.
C9_LengthMismatchRejected ==
    [][(last'.op = "addFund" /\ pf_roi_data.index > 0
          /\ Len(last'.arg[1].roi_data) # pf_roi_data.index) =>
          LET fund == last'.arg[1] IN
          /\ last'.outcome = "ValueError"
          /\ funds' = DictUpdate(funds, fund)
          /\ portfolio' = Append(portfolio, fund.investmentinfo)
          /\ pf_roi_data' = pf_roi_data
          /\ \A i \in 1..Len(pf_roi_data'.columns) :
                Len(pf_roi_data'.columns[i].values) = pf_roi_data'.index]_vars

\* a fund of a new name rejected for its length alone, present in funds and
\* in the metadata table and absent from the returns table
C9_Witness ==
    /\ last.op = "addFund"
    /\ last.outcome = "ValueError"
    /\ pf_roi_data.index > 0
    /\ Len(last.arg[1].roi_data) # pf_roi_data.index
    /\ ~HasColumn(pf_roi_data, last.arg[1].name)
    /\ funds[Len(funds)] = last.arg[1]
    /\ portfolio[Len(portfolio)] = last.arg[1].investmentinfo

AllUnset ==
    /\ ~IsSet(pf_means) /\ ~IsSet(pf_weights) /\ ~IsSet(covPf)
    /\ ~IsSet(expectedRoi) /\ ~IsSet(volatility)

CacheDependency ==
    /\ IsSet(expectedRoi) => (IsSet(pf_means) /\ IsSet(pf_weights))
    /\ IsSet(volatility) => (IsSet(pf_weights) /\ IsSet(covPf))

StaysSet ==
    /\ IsSet(pf_means) => IsSet(pf_means')
    /\ IsSet(pf_weights) => IsSet(pf_weights')
    /\ IsSet(covPf) => IsSet(covPf')
    /\ IsSet(expectedRoi) => IsSet(expectedRoi')
    /\ IsSet(volatility) => IsSet(volatility')

\* C10: a new Portfolio has all five caches unset; in every state reached by
\* addFund, the compute operations and compSharpe, expectedRoi is set only if
\* pf_means and pf_weights are, and volatility only if pf_weights and covPf
\* are; and no operation returns a set cache to unset.
C10_CacheDependency ==
    /\ AllUnset
    /\ [][CacheDependency' /\ StaysSet]_vars

\* an addFund after compPfExpectedRoi and compPfVolatility both succeeded
C10_Witness ==
    /\ IsSet(expectedRoi) /\ IsSet(volatility)
    /\ last.op = "addFund"
====
